---- MODULE Spec2Model ----
(***************************************************************************)
(* A model of cmd/convert_checkpoint.py: the conversion of a Jax/Orbax     *)
(* Gemma checkpoint (a PyTree of arrays) into a directory tree of .raw and *)
(* .shape files.                                                           *)
(*                                                                         *)
(* Strings are sequences of one-character strings, so that os.path.join,   *)
(* os.path.split, str.join and the kernel's path resolution are computed   *)
(* character by character, as posixpath and the file system compute them.  *)
(***************************************************************************)
EXTENDS Integers, Sequences, FiniteSets, TLC

VARIABLES argv, ckpt, fs, fs0, run, pc, err,
          source_dir, target_dir, params, flat, idx, base_file_path

vars == <<argv, ckpt, fs, fs0, run, pc, err,
          source_dir, target_dir, params, flat, idx, base_file_path>>

----------------------------------------------------------------------------
(* Bounds of the model. *)

\* the most keys (edges) a generated Parameter Tree holds
MaxKeys == 3
\* the most times the tool is run against the same source and target
MaxRuns == 2
\* the largest dimension, the most dimensions and the most elements of an
\* array whose shape is serialized
MaxDim == 10
MaxRank == 2
MaxElems == 10

----------------------------------------------------------------------------
(* Python str operations, on sequences of characters. *)

Sep == "/"

RECURSIVE Repeat(_, _)
Repeat(c, n) == IF n <= 0 THEN <<>> ELSE <<c>> \o Repeat(c, n - 1)

StartsWith(s, c) == Len(s) > 0 /\ s[1] = c
EndsWith(s, c) == Len(s) > 0 /\ s[Len(s)] = c

\* s.find(c, start) as a 1-based index, 0 when absent (start is 1-based)
RECURSIVE Find(_, _, _)
Find(s, c, start) ==
    IF start > Len(s) THEN 0
    ELSE IF s[start] = c THEN start
    ELSE Find(s, c, start + 1)

\* the last index at or before i where s holds c, 0 when there is none
RECURSIVE RFindFrom(_, _, _)
RFindFrom(s, c, i) ==
    IF i = 0 THEN 0 ELSE IF s[i] = c THEN i ELSE RFindFrom(s, c, i - 1)

\* s.rfind(c) as a 1-based index, 0 when absent
RFind(s, c) == RFindFrom(s, c, Len(s))

\* s.rstrip(c)
RECURSIVE RStrip(_, _)
RStrip(s, c) ==
    IF Len(s) > 0 /\ s[Len(s)] = c THEN RStrip(SubSeq(s, 1, Len(s) - 1), c)
    ELSE s

\* s.split(c): the fields between the occurrences of c (at least one field)
RECURSIVE Split(_, _)
Split(s, c) ==
    LET i == Find(s, c, 1)
    IN  IF i = 0 THEN <<s>>
        ELSE <<SubSeq(s, 1, i - 1)>> \o Split(SubSeq(s, i + 1, Len(s)), c)

\* c.join(parts)
RECURSIVE StrJoin(_, _)
StrJoin(c, parts) ==
    IF Len(parts) = 0 THEN <<>>
    ELSE IF Len(parts) = 1 THEN parts[1]
    ELSE parts[1] \o <<c>> \o StrJoin(c, Tail(parts))

Digits == <<"0", "1", "2", "3", "4", "5", "6", "7", "8", "9">>

\* str(i) of a non-negative int: base 10, no leading zeros
RECURSIVE IntToStr(_)
IntToStr(i) ==
    IF i < 10 THEN <<Digits[i + 1]>>
    ELSE IntToStr(i \div 10) \o <<Digits[(i % 10) + 1]>>

----------------------------------------------------------------------------
(* posixpath, as os.path computes it on a POSIX host. *)

\* os.path.isabs
IsAbs(p) == StartsWith(p, Sep)

JoinStep_concat(path, b) == path \o b

\* one step of os.path.join's loop: path joined with the next segment b
JoinStep(path, b) ==
    IF StartsWith(b, Sep) \/ path = <<>> THEN b
    ELSE IF EndsWith(path, Sep) THEN path \o b
    ELSE path \o <<Sep>> \o b

\* os.path.join(a, *p)
RECURSIVE PathJoin(_, _)
PathJoin(a, p) ==
    IF Len(p) = 0 THEN a ELSE PathJoin(JoinStep(a, p[1]), Tail(p))

\* os.path.split(p): <<head, tail>>
PathSplit(p) ==
    LET i    == RFind(p, Sep)
        head == SubSeq(p, 1, i)
        tail == SubSeq(p, i + 1, Len(p))
    IN  <<IF head # <<>> /\ head # Repeat(Sep, Len(head))
          THEN RStrip(head, Sep) ELSE head,
          tail>>

\* os.path.dirname(p)
Dirname(p) == PathSplit(p)[1]

\* the component stack of os.path.normpath
RECURSIVE NormComps(_, _, _)
NormComps(comps, acc, rooted) ==
    IF Len(comps) = 0 THEN acc
    ELSE LET c == comps[1] IN
         IF c = <<>> \/ c = <<".">> THEN NormComps(Tail(comps), acc, rooted)
         ELSE IF c # <<".", ".">>
                 \/ (~rooted /\ acc = <<>>)
                 \/ (acc # <<>> /\ acc[Len(acc)] = <<".", ".">>)
              THEN NormComps(Tail(comps), Append(acc, c), rooted)
         ELSE IF acc # <<>>
              THEN NormComps(Tail(comps), SubSeq(acc, 1, Len(acc) - 1), rooted)
         ELSE NormComps(Tail(comps), acc, rooted)

\* os.path.normpath(p)
Normpath(p) ==
    IF p = <<>> THEN <<".">>
    ELSE LET slashes == IF ~StartsWith(p, Sep) THEN 0
                        ELSE IF Len(p) >= 2 /\ p[2] = Sep
                                /\ ~(Len(p) >= 3 /\ p[3] = Sep) THEN 2
                        ELSE 1
             body == StrJoin(Sep, NormComps(Split(p, Sep), <<>>, slashes > 0))
             out  == Repeat(Sep, slashes) \o body
         IN  IF out = <<>> THEN <<".">> ELSE out

----------------------------------------------------------------------------
(* The environment of the process: $HOME, the working directory and the    *)
(* password database that os.path.expanduser and os.path.abspath consult.  *)

HomeEnv == <<"/", "h">>
Cwd == <<"/", "c">>
PwdUsers == {<<"u">>}
PwdDir(name) == <<"/", "u">>

\* os.path.expanduser(p)
Expanduser(p) ==
    IF ~StartsWith(p, "~") THEN p
    ELSE LET f    == Find(p, Sep, 2)
             i    == IF f = 0 THEN Len(p) + 1 ELSE f
             name == SubSeq(p, 2, i - 1)
             rest == SubSeq(p, i, Len(p))
         IN  IF i = 2
             THEN LET r == RStrip(HomeEnv, Sep) \o rest
                  IN  IF r = <<>> THEN <<Sep>> ELSE r
             ELSE IF name \notin PwdUsers THEN p
             ELSE LET r == RStrip(PwdDir(name), Sep) \o rest
                  IN  IF r = <<>> THEN <<Sep>> ELSE r

\* os.path.abspath(p)
Abspath(p) == Normpath(IF IsAbs(p) THEN p ELSE PathJoin(Cwd, <<p>>))

----------------------------------------------------------------------------
(* The file system: the set of directories and the contents of the regular *)
(* files, each named by its resolved sequence of components below the      *)
(* root. The operations are the system calls behind os.mkdir, os.stat and  *)
(* open(path, 'w').                                                        *)

NonEmpty(s) == s # <<>>
Components(p) == SelectSeq(Split(p, Sep), NonEmpty)
Front(s) == SubSeq(s, 1, Len(s) - 1)
Last(s) == s[Len(s)]
Dot == <<".">>
DotDot == <<".", ".">>

\* the directory reached from cur by walking comps, every one of which must
\* name an existing directory
RECURSIVE WalkDir(_, _, _)
WalkDir(f, comps, cur) ==
    IF Len(comps) = 0 THEN [ok |-> TRUE, at |-> cur]
    ELSE LET c == comps[1] IN
         IF c = Dot THEN WalkDir(f, Tail(comps), cur)
         ELSE IF c = DotDot
              THEN WalkDir(f, Tail(comps), IF cur = <<>> THEN cur ELSE Front(cur))
         ELSE IF Append(cur, c) \in f.dirs
              THEN WalkDir(f, Tail(comps), Append(cur, c))
         ELSE [ok |-> FALSE, at |-> cur]

StartDir(p) == IF IsAbs(p) THEN <<>> ELSE Components(Cwd)

\* stat(p): "dir", "file" or "none"
Stat(f, p) ==
    LET comps == Components(p) IN
    IF p = <<>> THEN "none"
    ELSE IF comps = <<>> THEN "dir"
    ELSE LET par  == WalkDir(f, Front(comps), StartDir(p))
             name == Last(comps)
             t    == Append(par.at, name)
         IN  IF ~par.ok THEN "none"
             ELSE IF name = Dot \/ name = DotDot THEN "dir"
             ELSE IF t \in f.dirs THEN "dir"
             ELSE IF t \in DOMAIN f.files /\ ~EndsWith(p, Sep) THEN "file"
             ELSE "none"

\* os.path.exists, os.path.isdir
Exists(f, p) == Stat(f, p) # "none"
IsDir(f, p) == Stat(f, p) = "dir"

\* os.mkdir(p): res is "ok", "exists" (FileExistsError) or "error" (another
\* OSError: a missing parent, a parent that is a file)
Mkdir(f, p) ==
    LET comps == Components(p) IN
    IF p = <<>> THEN [fs |-> f, res |-> "error"]
    ELSE IF comps = <<>> THEN [fs |-> f, res |-> "exists"]
    ELSE LET par  == WalkDir(f, Front(comps), StartDir(p))
             name == Last(comps)
             t    == Append(par.at, name)
         IN  IF ~par.ok THEN [fs |-> f, res |-> "error"]
             ELSE IF name = Dot \/ name = DotDot THEN [fs |-> f, res |-> "exists"]
             ELSE IF t \in f.dirs \/ t \in DOMAIN f.files
                  THEN [fs |-> f, res |-> "exists"]
             ELSE [fs |-> [f EXCEPT !.dirs = @ \cup {t}], res |-> "ok"]

\* os.makedirs(name, exist_ok=True) in an environment where mkdir call
\* number n + 1 fails for a reason outside the tree (n < 0: none does).
\* calls counts the mkdir calls made. res is "ok", or the error that is
\* raised: "exists" for FileExistsError, "error" for another OSError of the
\* tree, "fault" for the environment's OSError. The recursive call's
\* FileExistsError is passed over, any other is raised; the last mkdir's
\* OSError is raised unless name is a directory, which it is not seen to be
\* where the environment failed the mkdir. The directories are made in the
\* order the recursion reaches them, head first.
RECURSIVE MakedirsAt(_, _, _)
MakedirsAt(f, name, n) ==
    LET s1   == PathSplit(name)
        s2   == IF s1[2] = <<>> THEN PathSplit(s1[1]) ELSE s1
        head == s2[1]
        tail == s2[2]
        rec  == head # <<>> /\ tail # <<>> /\ ~Exists(f, head)
        sub  == IF rec THEN MakedirsAt(f, head, n)
                ELSE [fs |-> f, res |-> "ok", calls |-> 0]
    IN  IF rec /\ sub.res \in {"error", "fault"} THEN sub
        ELSE IF rec /\ tail = Dot THEN [sub EXCEPT !.res = "ok"]
        ELSE IF sub.calls = n
             THEN [fs |-> sub.fs, res |-> "fault", calls |-> sub.calls + 1]
        ELSE LET m == Mkdir(sub.fs, name)
             IN  [fs    |-> m.fs,
                  res   |-> IF m.res = "ok" \/ IsDir(m.fs, name) THEN "ok"
                            ELSE m.res,
                  calls |-> sub.calls + 1]

\* os.makedirs(name, exist_ok=True) when no mkdir fails for the environment
Makedirs(f, name) ==
    LET r == MakedirsAt(f, name, -1) IN [fs |-> r.fs, res |-> r.res]

WithFile(f, t, data) ==
    [f EXCEPT !.files = [q \in DOMAIN f.files \cup {t} |->
                            IF q = t THEN data ELSE f.files[q]]]

\* the file that open(p, 'w') names: ok is FALSE when the open fails (a
\* missing or non-directory parent, a directory at p)
FileAt(f, p) ==
    LET comps == Components(p) IN
    IF p = <<>> \/ comps = <<>> \/ EndsWith(p, Sep)
    THEN [ok |-> FALSE, at |-> <<>>]
    ELSE LET par  == WalkDir(f, Front(comps), StartDir(p))
             name == Last(comps)
             t    == Append(par.at, name)
         IN  IF ~par.ok \/ name = Dot \/ name = DotDot \/ t \in f.dirs
             THEN [ok |-> FALSE, at |-> <<>>]
             ELSE [ok |-> TRUE, at |-> t]

OpenW_exclusive(f, p) ==
    LET r == FileAt(f, p)
    IN  IF r.ok /\ r.at \notin DOMAIN f.files
        THEN [fs |-> WithFile(f, r.at, <<>>), ok |-> TRUE]
        ELSE [fs |-> f, ok |-> FALSE]

\* open(p, 'w') / open(p, 'wb'): the file is created or truncated
OpenW(f, p) ==
    LET r == FileAt(f, p)
    IN  IF r.ok THEN [fs |-> WithFile(f, r.at, <<>>), ok |-> TRUE]
        ELSE [fs |-> f, ok |-> FALSE]

\* f.write(data) and the close at the end of the with block
WriteClose(f, p, data) == WithFile(f, FileAt(f, p).at, data)

----------------------------------------------------------------------------
(* Arrays and the Parameter Tree (a PyTree of dicts whose leaves are       *)
(* arrays).                                                                *)

\* str(array.dtype)
DTypeName(d) ==
    CASE d = "float32"  -> <<"f", "l", "o", "a", "t", "3", "2">>
      [] d = "bfloat16" -> <<"b", "f", "l", "o", "a", "t", "1", "6">>
      [] d = "int32"    -> <<"i", "n", "t", "3", "2">>
      [] d = "int8"     -> <<"i", "n", "t", "8">>

\* array.dtype.itemsize
ItemSize(d) ==
    CASE d = "float32"  -> 4
      [] d = "bfloat16" -> 2
      [] d = "int32"    -> 4
      [] d = "int8"     -> 1

RECURSIVE Prod(_)
Prod(shape) == IF Len(shape) = 0 THEN 1 ELSE shape[1] * Prod(Tail(shape))

\* array.tobytes() of an array every byte of which is a.fill
ToBytes(a) == Repeat(a.fill, Prod(a.shape) * ItemSize(a.dtype))

serialize_shape_trailing(a) ==
    StrJoin(",", <<DTypeName(a.dtype)>>
                 \o [i \in 1..Len(a.shape) |-> IntToStr(a.shape[i])]
                 \o << <<>> >>)

\* serialize_shape(array)
serialize_shape(a) ==
    StrJoin(",", <<DTypeName(a.dtype)>>
                 \o [i \in 1..Len(a.shape) |-> IntToStr(a.shape[i])])

\* dict keys: Python str values and, for a malformed tree, int values (v is
\* the decimal numeral of an int key)
StrKey(s) == [t |-> "str", v |-> s]
IntKey(s) == [t |-> "int", v |-> s]

NoArray == [dtype |-> "int8", shape |-> <<>>, fill |-> "00"]
NoKids == [k \in {} |-> FALSE]
LeafNode(a) == [leaf |-> TRUE, arr |-> a, kids |-> NoKids]
DictNode(kids) == [leaf |-> FALSE, arr |-> NoArray, kids |-> kids]

CharOrder == <<".", "/", "0", "1", "2", "3", "4", "5", "6", "7", "8", "9",
               "a", "b", "c", "h", "r", "s", "t", "u", "w", "~">>
CharCode(c) == CHOOSE i \in 1..Len(CharOrder) : CharOrder[i] = c

\* s < t for two Python str values (code point order)
RECURSIVE StrLess(_, _)
StrLess(s, t) ==
    IF Len(t) = 0 THEN FALSE
    ELSE IF Len(s) = 0 THEN TRUE
    ELSE IF s[1] # t[1] THEN CharCode(s[1]) < CharCode(t[1])
    ELSE StrLess(Tail(s), Tail(t))

RECURSIVE StrToInt(_)
StrToInt(s) ==
    IF Len(s) = 0 THEN 0
    ELSE 10 * StrToInt(Front(s))
         + ((CHOOSE i \in 1..10 : Digits[i] = Last(s)) - 1)

\* a < b for two keys of one type
KeyLess(a, b) ==
    IF a.t = "int" THEN StrToInt(a.v) < StrToInt(b.v) ELSE StrLess(a.v, b.v)

\* the keys of a dict can be sorted: no str is compared with an int
Sortable(keys) == \A a, b \in keys : a.t = b.t

\* sorted(keys), the order in which jax.tree_util walks a dict
RECURSIVE SortedKeys(_)
SortedKeys(keys) ==
    IF keys = {} THEN <<>>
    ELSE LET m == CHOOSE a \in keys : \A b \in keys \ {a} : KeyLess(a, b)
         IN  <<m>> \o SortedKeys(keys \ {m})

\* a jax.tree_util.DictKey
DictKey(k) == [key |-> k]

\* path_to_str_tuple(path)
path_to_str_tuple(path) == [i \in 1..Len(path) |-> path[i].key]

\* the tree can be flattened: every dict's keys can be sorted
RECURSIVE CanFlatten(_)
CanFlatten(node) ==
    node.leaf \/ (/\ Sortable(DOMAIN node.kids)
                  /\ \A k \in DOMAIN node.kids : CanFlatten(node.kids[k]))

\* jax.tree_util.tree_map_with_path(append_to_list, params): the list that
\* append_to_list builds, one (path, value) per leaf, depth first
RECURSIVE TreeWalk(_, _), TreeWalkKids(_, _, _)
TreeWalk(node, path) ==
    IF node.leaf THEN << <<path_to_str_tuple(path), node.arr>> >>
    ELSE TreeWalkKids(node.kids, SortedKeys(DOMAIN node.kids), path)
TreeWalkKids(kids, ks, path) ==
    IF Len(ks) = 0 THEN <<>>
    ELSE TreeWalk(kids[ks[1]], Append(path, DictKey(ks[1])))
         \o TreeWalkKids(kids, Tail(ks), path)

\* flatten_params(params)
flatten_params(tree) == TreeWalk(tree, <<>>)

\* os.path.join(base_dir, *path) raises TypeError unless every segment is a str
JoinOk(path) == \A i \in 1..Len(path) : path[i].t = "str"
Segments(path) == [i \in 1..Len(path) |-> path[i].v]

----------------------------------------------------------------------------
(* The inputs: command lines, checkpoints and arrays.                      *)

\* the str keys of the generated trees: plain names, the empty string, a
\* traversal segment and an absolute path; and with them an int key
Keys == {StrKey(<<"a">>), StrKey(<<"b">>), StrKey(<<>>), StrKey(DotDot),
         StrKey(<<"/", "b">>)}
AnyKeys == Keys \cup {IntKey(<<"1">>)}

\* the keys of the trees exported to several targets: two plain names, the
\* traversal segment and the absolute path
PathKeys == {StrKey(<<"a">>), StrKey(<<"b">>), StrKey(DotDot),
             StrKey(<<"/", "b">>)}

\* targets whose parent exists (/t) and whose parent is missing (/t/r)
Path_tr == <<"/", "t", "/", "/", "r", "/">>

\* the arrays stored at the leaves, in the order of the walk:
\* int8[2], a scalar int32, and an empty int8[0]
Pool == <<[dtype |-> "int8", shape |-> <<2>>, fill |-> "3f"],
          [dtype |-> "int32", shape |-> <<>>, fill |-> "07"],
          [dtype |-> "int8", shape |-> <<0>>, fill |-> "00"]>>
PoolArray(n) == Pool[((n - 1) % Len(Pool)) + 1]

\* every tree shape of at most n keys in all (a leaf, or a dict of subtrees)
\* over the keys of all, with the keys of keys at the root
RECURSIVE DictsOver(_, _, _)
Shapes(all, n) ==
    {LeafNode(NoArray)} \cup {DictNode(d) : d \in DictsOver(all, all, n)}
DictsOver(all, keys, n) ==
    IF keys = {} \/ n = 0 THEN {NoKids}
    ELSE LET k    == CHOOSE x \in keys : TRUE
             rest == keys \ {k}
         IN  DictsOver(all, rest, n)
             \cup UNION {{(k :> t) @@ d : t \in Shapes(all, m - 1),
                                          d \in DictsOver(all, rest, n - m)}
                         : m \in 1..n}

\* an order of the keys of any dict, used only to number the leaves
RECURSIVE AnyOrder(_)
AnyOrder(keys) ==
    IF keys = {} THEN <<>>
    ELSE LET ints == {k \in keys : k.t = "int"}
             strs == keys \ ints
         IN  SortedKeys(ints) \o SortedKeys(strs)

\* the tree shape with the n-th, n+1-th, ... pool array at its leaves
RECURSIVE Fill(_, _), FillKids(_, _, _)
Fill(node, n) ==
    IF node.leaf THEN [node |-> LeafNode(PoolArray(n)), next |-> n + 1]
    ELSE LET r == FillKids(node.kids, AnyOrder(DOMAIN node.kids), n)
         IN  [node |-> DictNode(r.kids), next |-> r.next]
FillKids(kids, ks, n) ==
    IF Len(ks) = 0 THEN [kids |-> NoKids, next |-> n]
    ELSE LET first == Fill(kids[ks[1]], n)
             rest  == FillKids(kids, Tail(ks), first.next)
         IN  [kids |-> (ks[1] :> first.node) @@ rest.kids, next |-> rest.next]

\* the Parameter Trees: dicts of at most MaxKeys keys in all
Trees(all) == {Fill(DictNode(d), 1).node : d \in DictsOver(all, all, MaxKeys)}

\* the arrays whose shapes are serialized: every dtype, every shape of at
\* most MaxRank dimensions of at most MaxDim, of at most MaxElems elements
DTypes == {"float32", "bfloat16", "int32", "int8"}
ShapeArrays ==
    {[dtype |-> d, shape |-> sh, fill |-> "00"] :
        d \in DTypes,
        sh \in {x \in UNION {[1..r -> 0..MaxDim] : r \in 0..MaxRank} :
                    Prod(x) <= MaxElems}}

Path_s == <<"/", "s">>
Path_t == <<"/", "t">>

\* the command lines: source_dir and the optional --target_dir
Arg(src, given, tgt) == [source |-> src, given |-> given, target |-> tgt]
SourceArgs == {Path_s, <<"/">>, <<"s">>, <<"~", "/", "s">>, <<"~">>, <<".">>,
               <<"/", "/", "s", "/">>, <<"/", "s", "/", ".", ".", "/", "c">>}
TargetArgs == {Path_t, <<>>, <<"t">>, <<"~", "/", "t">>, <<"~", "u", "/", "t">>,
               <<"~", "w">>, <<".", ".", "/", "t">>, <<"/", "t", "/", "/", "r", "/">>}

NoError == [exc |-> "none", at |-> "none"]

Checkpoint(tree) == [valid |-> TRUE, tree |-> tree]
NoCheckpoint == [valid |-> FALSE, tree |-> DictNode(NoKids)]

\* the directories that exist when the tool starts: the root, $HOME, the
\* working directory and, when it holds a checkpoint, the source directory
Prefixes(comps) == {SubSeq(comps, 1, n) : n \in 0..Len(comps)}
InitFs(a, c) ==
    [dirs  |-> Prefixes(Components(HomeEnv)) \cup Prefixes(Components(Cwd))
               \cup (IF c.valid
                     THEN Prefixes(Components(Abspath(Expanduser(a.source))))
                     ELSE {}),
     files |-> [q \in {} |-> <<>>]]

InitWith(args, ckpts) ==
    /\ argv \in args
    /\ ckpt \in ckpts
    /\ fs = InitFs(argv, ckpt)
    /\ fs0 = fs
    /\ run = 1
    /\ pc = "main"
    /\ err = NoError
    /\ source_dir = <<>>
    /\ target_dir = <<>>
    /\ params = DictNode(NoKids)
    /\ flat = <<>>
    /\ idx = 0
    /\ base_file_path = <<>>

\* one command line, every checkpoint whose keys are strings
Init ==
    InitWith({Arg(Path_s, TRUE, Path_t)},
             {NoCheckpoint} \cup {Checkpoint(t) : t \in Trees(Keys)})

\* one command line, every checkpoint, also those with an int key
InitAnyKeys ==
    InitWith({Arg(Path_s, TRUE, Path_t)},
             {NoCheckpoint} \cup {Checkpoint(t) : t \in Trees(AnyKeys)})

\* every command line, one checkpoint
InitArgs ==
    InitWith({Arg(src, g, tgt) : src \in SourceArgs, g \in {TRUE},
                                 tgt \in TargetArgs}
             \cup {Arg(src, FALSE, <<>>) : src \in SourceArgs},
             {NoCheckpoint,
              Checkpoint(DictNode(StrKey(<<"w">>) :> LeafNode(Pool[1])))})

\* two targets, one with a missing parent, every checkpoint over PathKeys
InitTargets ==
    InitWith({Arg(Path_s, TRUE, Path_t), Arg(Path_s, TRUE, Path_tr)},
             {NoCheckpoint} \cup {Checkpoint(t) : t \in Trees(PathKeys)})

\* one command line, a checkpoint of one array, every array
InitShapes ==
    InitWith({Arg(Path_s, TRUE, Path_t)},
             {NoCheckpoint}
             \cup {Checkpoint(DictNode(StrKey(<<"w">>) :> LeafNode(a))) :
                      a \in ShapeArrays})

----------------------------------------------------------------------------
(* The program.                                                            *)

ResolveTarget_is_not_none(a, src) ==
    IF a.given
    THEN Abspath(Expanduser(a.target))
    ELSE PathJoin(src, << <<"r", "a", "w">> >>)

\* main's target_dir: args.target_dir is falsy when absent (None) or empty
ResolveTarget(a, src) ==
    IF a.given /\ a.target # <<>>
    THEN Abspath(Expanduser(a.target))
    ELSE PathJoin(src, << <<"r", "a", "w">> >>)

\* an uncaught exception: the process exits at the statement that raised
\* it, nothing is undone
Raise(e) == pc' = "failed" /\ err' = [exc |-> e, at |-> pc]

\* main, up to the call of read_parameter: the arguments are parsed and the
\* two directories resolved and printed
main ==
    /\ pc = "main"
    /\ source_dir' = Abspath(Expanduser(argv.source))
    /\ target_dir' = ResolveTarget(argv, source_dir')
    /\ pc' = "read_parameter"
    /\ UNCHANGED <<argv, ckpt, fs, fs0, run, err, params, flat, idx,
                   base_file_path>>

read_parameter_unchecked ==
    /\ pc = "read_parameter"
    /\ params' = ckpt.tree
    /\ pc' = "write_params"
    /\ UNCHANGED <<argv, ckpt, fs, fs0, run, err, source_dir, target_dir, flat,
                   idx, base_file_path>>

\* read_parameter(source_dir): the Loader returns the tree or raises
read_parameter ==
    /\ pc = "read_parameter"
    /\ IF ckpt.valid
       THEN /\ params' = ckpt.tree
            /\ pc' = "write_params"
            /\ err' = err
       ELSE /\ Raise("loader")
            /\ params' = params
    /\ UNCHANGED <<argv, ckpt, fs, fs0, run, source_dir, target_dir, flat, idx,
                   base_file_path>>

\* write_params' base_dir
BaseDir == Expanduser(target_dir)

\* write_params, up to the loop: flatten_params(params) is evaluated
write_params ==
    /\ pc = "write_params"
    /\ IF CanFlatten(params)
       THEN /\ flat' = flatten_params(params)
            /\ idx' = 1
            /\ pc' = IF Len(flat') = 0 THEN "done" ELSE "makedirs"
            /\ err' = err
       ELSE /\ Raise("flatten")
            /\ UNCHANGED <<flat, idx>>
    /\ UNCHANGED <<argv, ckpt, fs, fs0, run, source_dir, target_dir, params,
                   base_file_path>>

LeafPath == flat[idx][1]
LeafArray == flat[idx][2]
RawPath == base_file_path \o <<".", "r", "a", "w">>
ShapePath == base_file_path \o <<".", "s", "h", "a", "p", "e">>

\* the loop's next leaf: base_file_path is joined and its directories made
makedirs ==
    /\ pc = "makedirs"
    /\ IF ~JoinOk(LeafPath)
       THEN /\ Raise("join")
            /\ UNCHANGED <<fs, base_file_path>>
       ELSE /\ base_file_path' = PathJoin(BaseDir, Segments(LeafPath))
            /\ LET r == Makedirs(fs, Dirname(base_file_path'))
               IN  /\ fs' = r.fs
                   /\ IF r.res = "ok"
                      THEN pc' = "open_raw" /\ err' = err
                      ELSE Raise("makedirs")
    /\ UNCHANGED <<argv, ckpt, fs0, run, source_dir, target_dir, params, flat,
                   idx>>

\* open(base_file_path+".raw", 'wb')
open_raw ==
    /\ pc = "open_raw"
    /\ LET r == OpenW(fs, RawPath)
       IN  /\ fs' = r.fs
           /\ IF r.ok THEN pc' = "write_raw" /\ err' = err ELSE Raise("open")
    /\ UNCHANGED <<argv, ckpt, fs0, run, source_dir, target_dir, params, flat,
                   idx, base_file_path>>

\* f.write(array.tobytes()) and the close of the .raw file
write_raw ==
    /\ pc = "write_raw"
    /\ fs' = WriteClose(fs, RawPath, ToBytes(LeafArray))
    /\ pc' = "open_shape"
    /\ UNCHANGED <<argv, ckpt, fs0, run, err, source_dir, target_dir, params,
                   flat, idx, base_file_path>>

\* open(base_file_path+".shape", 'w')
open_shape ==
    /\ pc = "open_shape"
    /\ LET r == OpenW(fs, ShapePath)
       IN  /\ fs' = r.fs
           /\ IF r.ok THEN pc' = "write_shape" /\ err' = err ELSE Raise("open")
    /\ UNCHANGED <<argv, ckpt, fs0, run, source_dir, target_dir, params, flat,
                   idx, base_file_path>>

\* f.write(serialize_shape(array)), the close of the .shape file, and the
\* loop's step to the next leaf or the return
write_shape ==
    /\ pc = "write_shape"
    /\ fs' = WriteClose(fs, ShapePath, serialize_shape(LeafArray))
    /\ idx' = idx + 1
    /\ pc' = IF idx < Len(flat) THEN "makedirs" ELSE "done"
    /\ UNCHANGED <<argv, ckpt, fs0, run, err, source_dir, target_dir, params,
                   flat, base_file_path>>

\* os.makedirs fails for a reason outside the tree (permissions, a full
\* disk) at any one of its mkdir calls, whether or not that call would have
\* made a directory: the directories the earlier calls made stay
makedirs_fault ==
    /\ pc = "makedirs"
    /\ JoinOk(LeafPath)
    /\ base_file_path' = PathJoin(BaseDir, Segments(LeafPath))
    /\ LET d == Dirname(base_file_path')
       IN  \E n \in 0..(MakedirsAt(fs, d, -1).calls - 1) :
              LET r == MakedirsAt(fs, d, n)
              IN  r.res = "fault" /\ fs' = r.fs
    /\ Raise("env")
    /\ UNCHANGED <<argv, ckpt, fs0, run, source_dir, target_dir, params, flat,
                   idx>>

\* open fails for a reason outside the tree: no file is created or truncated
open_fault ==
    /\ pc \in {"open_raw", "open_shape"}
    /\ Raise("env")
    /\ UNCHANGED <<argv, ckpt, fs, fs0, run, source_dir, target_dir, params,
                   flat, idx, base_file_path>>

write_fault_unlink ==
    /\ pc \in {"write_raw", "write_shape"}
    /\ LET p == IF pc = "write_raw" THEN RawPath ELSE ShapePath
           t == FileAt(fs, p).at
       IN  fs' = [fs EXCEPT !.files = [q \in DOMAIN fs.files \ {t} |-> fs.files[q]]]
    /\ Raise("env")
    /\ UNCHANGED <<argv, ckpt, fs0, run, source_dir, target_dir, params, flat,
                   idx, base_file_path>>

\* a write fails part of the way (a full disk), or the close that ends the
\* with block fails after the write: a prefix of the data is in the file
write_fault ==
    /\ pc \in {"write_raw", "write_shape"}
    /\ LET p    == IF pc = "write_raw" THEN RawPath ELSE ShapePath
           data == IF pc = "write_raw" THEN ToBytes(LeafArray)
                   ELSE serialize_shape(LeafArray)
           t    == FileAt(fs, p).at
       IN  \E n \in 0..Len(data) :
              fs' = WithFile(fs, t, SubSeq(data, 1, n))
    /\ Raise("env")
    /\ UNCHANGED <<argv, ckpt, fs0, run, source_dir, target_dir, params, flat,
                   idx, base_file_path>>

\* the tool is run again with the same command line, against the same
\* checkpoint, on the file system the finished run left
rerun ==
    /\ pc = "done"
    /\ run < MaxRuns
    /\ run' = run + 1
    /\ fs0' = fs
    /\ pc' = "main"
    /\ source_dir' = <<>>
    /\ target_dir' = <<>>
    /\ params' = DictNode(NoKids)
    /\ flat' = <<>>
    /\ idx' = 0
    /\ base_file_path' = <<>>
    /\ UNCHANGED <<argv, ckpt, fs, err>>

Next ==
    \/ main
    \/ read_parameter
    \/ write_params
    \/ makedirs
    \/ open_raw
    \/ write_raw
    \/ open_shape
    \/ write_shape
    \/ makedirs_fault
    \/ open_fault
    \/ write_fault
    \/ rerun

Spec == Init /\ [][Next]_vars
SpecAnyKeys == InitAnyKeys /\ [][Next]_vars
SpecArgs == InitArgs /\ [][Next]_vars
SpecShapes == InitShapes /\ [][Next]_vars
SpecTargets == InitTargets /\ [][Next]_vars

----------------------------------------------------------------------------
(* What the claims speak of.                                               *)

IsPrefix(a, b) == Len(a) <= Len(b) /\ SubSeq(b, 1, Len(a)) = a
HasSuffix(s, suf) ==
    Len(suf) <= Len(s) /\ SubSeq(s, Len(s) - Len(suf) + 1, Len(s)) = suf
RawExt == <<".", "r", "a", "w">>
ShapeExt == <<".", "s", "h", "a", "p", "e">>

\* the key sequences of the leaves of a tree, and the keys it uses
RECURSIVE LeafPathsOf(_)
LeafPathsOf(node) ==
    IF node.leaf THEN {<<>>}
    ELSE UNION {{<<k>> \o p : p \in LeafPathsOf(node.kids[k])}
                : k \in DOMAIN node.kids}
NumLeaves(node) == Cardinality(LeafPathsOf(node))
KeysOf(node) == UNION {{p[i] : i \in 1..Len(p)} : p \in LeafPathsOf(node)}

\* the files below the target directory, by extension
TargetComps == Components(target_dir)
FilesUnderTarget ==
    {q \in DOMAIN fs.files : IsPrefix(TargetComps, q) /\ Len(q) > Len(TargetComps)}
RawFiles == {q \in FilesUnderTarget : HasSuffix(Last(q), RawExt)}
ShapeFiles == {q \in FilesUnderTarget : HasSuffix(Last(q), ShapeExt)}
Stem(q, ext) == Append(Front(q), SubSeq(Last(q), 1, Len(Last(q)) - Len(ext)))

\* the file stem write_params computes for the i-th flattened leaf
StemOf(i) == PathJoin(BaseDir, Segments(flat[i][1]))

\* C1: after write_params(T, target) has returned on a target that was
\* empty, the files under the target are exactly one .raw and one .shape per
\* leaf of T: as many pairs as T has leaves, and no other file.
OnePairPerLeaf ==
    (pc = "done" /\ run = 1) =>
        /\ Cardinality(RawFiles) = NumLeaves(params)
        /\ Cardinality(ShapeFiles) = NumLeaves(params)
        /\ FilesUnderTarget = RawFiles \cup ShapeFiles
        /\ {Stem(q, RawExt) : q \in RawFiles}
           = {Stem(q, ShapeExt) : q \in ShapeFiles}

\* C2: two leaves whose Parameter Paths differ get different file stems.
StemsInjective ==
    \A i, j \in 1..Len(flat) :
        (/\ flat[i][1] # flat[j][1]
         /\ JoinOk(flat[i][1])
         /\ JoinOk(flat[j][1])) => StemOf(i) # StemOf(j)

\* C3: nothing is created or written before the Loader has returned; when
\* the source holds no valid checkpoint the run aborts in the Loader, with
\* nothing written and write_params never entered.
NoWriteBeforeLoad ==
    /\ (pc \in {"main", "read_parameter"}
        \/ (pc = "failed" /\ err.at = "read_parameter")) => fs = fs0
    /\ ~ckpt.valid =>
          /\ pc \in {"main", "read_parameter", "failed"}
          /\ pc = "failed" => err = [exc |-> "loader", at |-> "read_parameter"]
          /\ Len(flat) = 0
          /\ fs = fs0

NoWriteBeforeLoad_witness ==
    pc = "failed" /\ err.exc = "loader" /\ ~ckpt.valid /\ fs = fs0

\* the decimal numerals: a digit string with no leading zero, "0" itself
IsNumeral(s) ==
    /\ Len(s) > 0
    /\ \A i \in 1..Len(s) : \E d \in 1..10 : Digits[d] = s[i]
    /\ (Len(s) > 1 => s[1] # "0")

\* the text of the .shape file of the leaf the loop has just finished
WrittenShapeText == fs.files[FileAt(fs, ShapePath).at]
LastArray == flat[idx - 1][2]

\* C4: the .shape text is the dtype name then one base-10 field per
\* dimension, comma separated: 1 + ndim fields, field 0 the dtype name, the
\* others the dimensions in order; a scalar gives the dtype name alone.
ShapeTextRoundTrip ==
    (pc \in {"makedirs", "done"} /\ idx > 1) =>
        LET fields == Split(WrittenShapeText, ",")
        IN  /\ Len(fields) = 1 + Len(LastArray.shape)
            /\ fields[1] = DTypeName(LastArray.dtype)
            /\ \A d \in 1..Len(LastArray.shape) :
                  /\ IsNumeral(fields[d + 1])
                  /\ StrToInt(fields[d + 1]) = LastArray.shape[d]
            /\ (Len(LastArray.shape) = 0 =>
                  /\ WrittenShapeText = DTypeName(LastArray.dtype)
                  /\ ~EndsWith(WrittenShapeText, ","))

ShapeTextRoundTrip_witness ==
    /\ pc = "done"
    /\ idx = 2
    /\ LastArray.shape = <<10, 1>>
    /\ WrittenShapeText = <<"i", "n", "t", "8", ",", "1", "0", ",", "1">>

\* C5: a second run on the output of a finished run fails only if the
\* environment fails it, and when it finishes the directories, the files
\* and their contents are those the first run left.
RerunIdempotent ==
    run > 1 =>
        /\ pc = "failed" => err.exc = "env"
        /\ pc = "done" => fs = fs0

RerunIdempotent_witness ==
    run = 2 /\ pc = "done" /\ Len(flat) >= 2 /\ Cardinality(DOMAIN fs.files) >= 4

\* C6: without --target_dir, or with an empty one, the target is the
\* directory raw of the resolved (absolute, home-expanded) source directory;
\* with one, it is that argument, absolute and home-expanded, whatever the
\* source is.
TargetResolution ==
    pc # "main" =>
        /\ source_dir = Abspath(Expanduser(argv.source))
        /\ IsAbs(source_dir)
        /\ IsAbs(target_dir)
        /\ IF ~argv.given \/ argv.target = <<>>
           THEN Components(target_dir)
                = Append(Components(source_dir), <<"r", "a", "w">>)
           ELSE target_dir = Abspath(Expanduser(argv.target))

TargetResolution_witness ==
    /\ pc = "done"
    /\ argv.given
    /\ argv.target = <<>>
    /\ argv.source = <<"~", "/", "s">>
    /\ target_dir = <<"/", "h", "/", "s", "/", "r", "a", "w">>

\* every key of a tree, also those above an empty dict
RECURSIVE AllKeys(_)
AllKeys(node) ==
    IF node.leaf THEN {}
    ELSE DOMAIN node.kids \cup UNION {AllKeys(node.kids[k]) : k \in DOMAIN node.kids}

\* C7: a tree with a key that is not a string fails in flatten_params,
\* before write_params creates a directory or writes a file.
NonStringKeyFailsInFlatten ==
    (ckpt.valid /\ \E k \in AllKeys(ckpt.tree) : k.t # "str") =>
        /\ pc \in {"main", "read_parameter", "write_params", "failed"}
        /\ pc = "failed" => err.exc = "flatten"
        /\ fs = fs0

\* the file system after write_params has exported one leaf without failure
ExportLeaf(f, leaf) ==
    LET stem == PathJoin(BaseDir, Segments(leaf[1]))
        f1   == Makedirs(f, Dirname(stem)).fs
        f2   == WriteClose(OpenW(f1, stem \o RawExt).fs, stem \o RawExt,
                           ToBytes(leaf[2]))
    IN  WriteClose(OpenW(f2, stem \o ShapeExt).fs, stem \o ShapeExt,
                   serialize_shape(leaf[2]))

\* the file system after the first k flattened leaves have been exported
RECURSIVE Exported(_)
Exported(k) == IF k = 0 THEN fs0 ELSE ExportLeaf(Exported(k - 1), flat[k])

\* the file system at each statement of the loop: the complete output of
\* the leaves before leaf idx, and of leaf idx what the statements before
\* this one have made
ExportProgress ==
    /\ pc = "done" => fs = Exported(Len(flat))
    /\ pc \in {"makedirs", "open_raw", "write_raw", "open_shape", "write_shape"} =>
          \E before \in {Exported(idx - 1)} :
             IF pc = "makedirs" THEN fs = before
             ELSE \E made \in {Makedirs(before, Dirname(base_file_path)).fs} :
                  LET rawAt   == FileAt(made, RawPath).at
                      shapeAt == FileAt(made, ShapePath).at
                      rawDone == WithFile(made, rawAt, ToBytes(LeafArray))
                  IN  CASE pc = "open_raw" -> fs = made
                        [] pc = "write_raw" -> fs = WithFile(made, rawAt, <<>>)
                        [] pc = "open_shape" -> fs = rawDone
                        [] pc = "write_shape" ->
                              fs = WithFile(rawDone, shapeAt, <<>>)

\* a step that aborts the export of a leaf undoes nothing: it leaves the
\* file system it found, but for the directories a failed makedirs had
\* made and the part of the data a failed write had written
AbortStep ==
    (pc' = "failed" /\ pc \notin {"read_parameter", "write_params"}) =>
        CASE pc = "makedirs" ->
                /\ fs'.files = fs.files
                /\ fs.dirs \subseteq fs'.dirs
                /\ JoinOk(LeafPath) =>
                      fs'.dirs \subseteq
                          Makedirs(fs, Dirname(base_file_path')).fs.dirs
                /\ ~JoinOk(LeafPath) => fs' = fs
          [] pc \in {"open_raw", "open_shape"} -> fs' = fs
          [] pc \in {"write_raw", "write_shape"} ->
                LET p    == IF pc = "write_raw" THEN RawPath ELSE ShapePath
                    data == IF pc = "write_raw" THEN ToBytes(LeafArray)
                            ELSE serialize_shape(LeafArray)
                    t    == FileAt(fs, p).at
                IN  /\ t \in DOMAIN fs'.files
                    /\ IsPrefix(fs'.files[t], data)
                    /\ fs' = WithFile(fs, t, fs'.files[t])

\* C8: a failure while leaf k is exported aborts the run there: the run
\* takes no further step (nothing is caught, retried or cleaned up, no later
\* leaf is touched), and the disk holds the complete output of leaves
\* 1..k-1 and what had been written of leaf k.
AbortKeepsOutput ==
    /\ []ExportProgress
    /\ [][AbortStep]_vars
    /\ [][pc # "failed"]_vars

AbortKeepsOutput_witness ==
    /\ pc = "failed"
    /\ run = 1
    /\ err = [exc |-> "env", at |-> "write_raw"]
    /\ idx = 2
    /\ Len(flat) = 3
    /\ Cardinality(DOMAIN fs.files) = 3

\* the flattened leaves whose .raw (.shape) file is the file q
RawWriters(q) ==
    {i \in 1..Len(flat) :
        JoinOk(flat[i][1]) /\ FileAt(fs, StemOf(i) \o RawExt).at = q}

\* C9: in a run on an empty target, at every point every .shape file has
\* beside it a fully written .raw file, and at most one .raw file has no
\* .shape file.
RawBeforeShape ==
    run = 1 =>
        /\ \A q \in DOMAIN fs.files :
              HasSuffix(Last(q), ShapeExt) =>
                 LET r == Append(Front(q), Last(Stem(q, ShapeExt)) \o RawExt)
                 IN  /\ r \in DOMAIN fs.files
                     /\ \E i \in RawWriters(r) : fs.files[r] = ToBytes(flat[i][2])
        /\ Cardinality({q \in DOMAIN fs.files :
               /\ HasSuffix(Last(q), RawExt)
               /\ Append(Front(q), Last(Stem(q, RawExt)) \o ShapeExt)
                      \notin DOMAIN fs.files}) <= 1

\* a key that is one plain path segment
SafeKey(k) ==
    /\ k.t = "str"
    /\ k.v # <<>>
    /\ \A i \in 1..Len(k.v) : k.v[i] # Sep
    /\ k.v \notin {Dot, DotDot}

\* the tree was loaded and every key of it is one plain path segment
SafeTree == pc # "main" /\ ckpt.valid /\ \A k \in AllKeys(ckpt.tree) : SafeKey(k)

\* the directories made since the tool started
DirsMade == fs.dirs \ InitFs(argv, ckpt).dirs

\* a directory in the target root above some leaf: the root itself or a
\* directory below it, fewer levels down than the leaf's path has keys
AboveLeaf(d) ==
    \E p \in LeafPathsOf(ckpt.tree) : \E n \in 0..(Len(p) - 1) :
        d = TargetComps \o Segments(SubSeq(p, 1, n))

\* every file is the .raw or .shape file of a leaf, as many levels below
\* the target root as the leaf's path has keys
FilesAtLeafDepth ==
    \A q \in DOMAIN fs.files :
        \E p \in LeafPathsOf(ckpt.tree) : \E ext \in {RawExt, ShapeExt} :
            /\ q = TargetComps \o Segments(Front(p)) \o <<Last(p).v \o ext>>
            /\ Len(q) = Len(TargetComps) + Len(p)

\* no key is sanitized: after a finished run the two files of every leaf
\* are where the system resolves the join of the target and the keys as
\* they are. A path whose first key is ".." and whose later keys are plain
\* has its files outside the target root (unless that is "/"), and so has a
\* path with an absolute key that is not in the target root, followed by
\* plain keys.
UnsafeKeyEscapes ==
    (pc = "done" /\ ckpt.valid) =>
        \A i \in 1..Len(flat) : \A ext \in {RawExt, ShapeExt} :
            LET p == flat[i][1]
                q == FileAt(fs, StemOf(i) \o ext).at
            IN  /\ q \in DOMAIN fs.files
                /\ ( /\ TargetComps # <<>>
                     /\ Len(p) >= 2
                     /\ p[1] = StrKey(DotDot)
                     /\ \A j \in 2..Len(p) : SafeKey(p[j]) )
                      => ~IsPrefix(TargetComps, q)
                /\ ( \E j \in 1..Len(p) :
                        /\ StartsWith(p[j].v, Sep)
                        /\ ~IsPrefix(TargetComps, Components(p[j].v))
                        /\ \A m \in (j + 1)..Len(p) : SafeKey(p[m]) )
                      => ~IsPrefix(TargetComps, q)

====
